---- MODULE Spec2Model ----
(***************************************************************************)
(* Badminton elimination (src/badminton_elimination.py).                   *)
(*                                                                         *)
(* A Division holds a roster (self.teams) and one stored flow network      *)
(* (self.G).  is_eliminated(teamID, solver) runs a pre-check, rebuilds the *)
(* network with create_network and hands it to network_flows or            *)
(* linear_programming.                                                     *)
(*                                                                         *)
(* Graph nodes are strings: "Source", "Sink", the matchup names            *)
(* str(i) + "_" + str(j), and a team node t, an int in the program, is     *)
(* written ToString(t): an int never equals a str in Python and the        *)
(* decimal numeral of t is neither "Source", "Sink" nor a name holding     *)
(* "_", so the renaming is one-to-one on the nodes of the network.         *)
(* Team.name and Team.losses are never read by the modelled methods and    *)
(* are left out of the team records.                                       *)
(***************************************************************************)
EXTENDS Integers, Sequences, FiniteSets, TLC

\* teams, G: self.teams and self.G of the Division.
\* teamID, solver, outcome, ret, called, saturated_edges: the arguments of
\* the last call of is_eliminated, how it ended ("returned" or "raised"),
\* the value it returned, the methods it called and the saturated_edges its
\* create_network returned.  nqueries counts the calls made so far.
\* threads: the calls in progress when two callers share the Division.
VARIABLES teams, G, saturated_edges, teamID, solver, outcome, ret, called,
          nqueries, threads

vars == <<teams, G, saturated_edges, teamID, solver, outcome, ret, called,
          nqueries, threads>>

\* ------------------------------------------------------------------ bounds
\* Largest number of teams in a division.
MaxTeams == 3
\* Largest number of games won so far by all teams of a division together.
MaxTotalWins == 3
\* Largest number of games still to be played in a division.
MaxTotalGames == 2
\* The LP variables range over the multiples of 1/Den.
Den == 2
\* Largest number of calls of is_eliminated made on one Division.
MaxQueries == 3

\* ----------------------------------------------------------------- helpers
RECURSIVE SumOver(_, _)
\* sum of f[x] for x in S
SumOver(f, S) ==
    IF S = {} THEN 0
    ELSE LET x == CHOOSE y \in S : TRUE IN f[x] + SumOver(f, S \ {x})

Min(a, b) == IF a < b THEN a ELSE b

\* ------------------------------------------------------------------ roster
\* Team.get_against: self.against[other_team]
get_against(T, i, j) == T[i].against[j]

\* The unordered pairs {i, j}, i < j, of the ids 0 .. n-1.
Pairs(n) == {p \in (0 .. n - 1) \X (0 .. n - 1) : p[1] < p[2]}

\* The roster readDivision builds from a well-formed file of n teams with
\* the wins w and the remaining games g of each pair: ids 0 .. n-1 in row
\* order, a symmetric against table with a zero diagonal, and
\* remaining = sum of against.
Roster(n, w, g) ==
    [t \in 0 .. n - 1 |->
        LET ag == [o \in 0 .. n - 1 |->
                      IF o = t THEN 0
                      ELSE IF t < o THEN g[<<t, o>>] ELSE g[<<o, t>>]]
        IN [ID |-> t, wins |-> w[t], remaining |-> SumOver(ag, 0 .. n - 1),
            against |-> ag]]

Rosters ==
    UNION {
      { Roster(n, w, g) :
          w \in {x \in [0 .. n - 1 -> 0 .. MaxTotalWins] :
                    SumOver(x, 0 .. n - 1) <= MaxTotalWins},
          g \in {x \in [Pairs(n) -> 0 .. MaxTotalGames] :
                    SumOver(x, Pairs(n)) <= MaxTotalGames} }
      : n \in 1 .. MaxTeams }

\* Division.get_team_IDs
get_team_IDs(T) == DOMAIN T

\* ------------------------------------------------------------------- graph
\* nx.DiGraph(): a node set and a capacity per directed edge <<u, v>>.
EmptyGraph == [nodes |-> {}, cap |-> <<>>]

add_node(g, u) == [g EXCEPT !.nodes = @ \cup {u}]

\* add_edge adds both ends and sets (or overwrites) the edge's capacity.
add_edge(g, u, v, c) ==
    [nodes |-> g.nodes \cup {u, v}, cap |-> (<<u, v>> :> c) @@ g.cap]

Edges(g) == DOMAIN g.cap
successors(g, u) == {v \in g.nodes : <<u, v>> \in Edges(g)}
predecessors(g, v) == {u \in g.nodes : <<u, v>> \in Edges(g)}

TeamNode(t) == ToString(t)
\* node_name = str(teamIDs[i]) + "_" + str(teamIDs[j])
NodeName(i, j) == ToString(i) \o "_" \o ToString(j)

\* --------------------------------------------------------- create_network
\* teamIDs = list(self.get_team_IDs()): the ids in insertion (row) order,
\* indexed from position 0.
TeamIDList(T) == [k \in 0 .. Cardinality(get_team_IDs(T)) - 1 |-> k]

\* line 106 with the queried team's wins left out.
SinkCapacityMutant(T, q, t) == T[q].remaining - T[t].wins

\* line 106: capacity = wins(queried) + remaining(queried) - wins(team)
SinkCapacity(T, q, t) == T[q].wins + T[q].remaining - T[t].wins

RECURSIVE RightLoop(_, _, _, _)
\* lines 103-107: for team in teamIDs, from position k on: every team but
\* the queried one gets a node and an edge team -> Sink.  ("is not" on the
\* small ints that ids are is the comparison of their values.)
RightLoop(g, T, q, k) ==
    LET ids == TeamIDList(T) IN
    IF k >= Cardinality(DOMAIN ids) THEN g
    ELSE IF ids[k] # q
         THEN RightLoop(add_edge(add_node(g, TeamNode(ids[k])),
                                 TeamNode(ids[k]), "Sink",
                                 SinkCapacity(T, q, ids[k])),
                        T, q, k + 1)
         ELSE RightLoop(g, T, q, k + 1)

\* lines 112-120, the body of the double loop for the positions i < j.
MatchupMutant(acc, T, q, i, j) ==
    LET ids == TeamIDList(T) IN
    IF i = q THEN acc
    ELSE LET node_name == NodeName(ids[i], ids[j])
             matchup_games == get_against(T, i, j)
             g1 == add_node(acc.G, node_name)
             g2 == add_edge(g1, "Source", node_name, matchup_games)
             g3 == add_edge(g2, node_name, TeamNode(ids[i]), matchup_games)
             g4 == add_edge(g3, node_name, TeamNode(ids[j]), matchup_games)
         IN [G |-> g4,
             saturated_edges |-> (node_name :> matchup_games) @@ acc.saturated_edges]

Matchup(acc, T, q, i, j) ==
    LET ids == TeamIDList(T) IN
    IF i = q \/ j = q THEN acc
    ELSE LET node_name == NodeName(ids[i], ids[j])
             matchup_games == get_against(T, i, j)
             g1 == add_node(acc.G, node_name)
             g2 == add_edge(g1, "Source", node_name, matchup_games)
             g3 == add_edge(g2, node_name, TeamNode(ids[i]), matchup_games)
             g4 == add_edge(g3, node_name, TeamNode(ids[j]), matchup_games)
         IN [G |-> g4,
             saturated_edges |-> (node_name :> matchup_games) @@ acc.saturated_edges]

RECURSIVE LeftLoop(_, _, _, _, _)
\* lines 110-111: for i in range(len - 1): for j in range(i + 1, len)
LeftLoop(acc, T, q, i, j) ==
    LET len == Cardinality(DOMAIN TeamIDList(T)) IN
    IF i >= len - 1 THEN acc
    ELSE IF j >= len THEN LeftLoop(acc, T, q, i + 1, i + 2)
    ELSE LeftLoop(Matchup(acc, T, q, i, j), T, q, i, j + 1)

\* line 97 with the reset left out: the graph of the earlier query is kept.
FreshGraphMutant(old) == old

\* line 97: self.G = nx.DiGraph(); whatever self.G held before is dropped.
FreshGraph(old) == EmptyGraph

\* create_network(teamID) on a Division whose self.G is old: the new self.G
\* and the returned saturated_edges.
create_network(old, T, q) ==
    LET g0 == add_node(add_node(FreshGraph(old), "Source"), "Sink")
        g1 == RightLoop(g0, T, q, 0)
    IN LeftLoop([G |-> g1, saturated_edges |-> <<>>], T, q, 0, 1)

\* ----------------------------------------------------------- network_flows
\* nx.algorithms.flow.maximum_flow(G, "Source", "Sink",
\* flow_func=shortest_augmenting_path): the value of a maximum flow.  The
\* residual network networkx builds keeps the edges of positive capacity
\* only, so an edge of capacity <= 0 carries nothing.
Residual(g) ==
    [e \in g.nodes \X g.nodes |->
        IF e \in Edges(g) /\ g.cap[e] > 0 THEN g.cap[e] ELSE 0]

RECURSIVE Layers(_, _, _)
\* breadth-first layers from Source in the residual network r; <<>> when
\* Sink cannot be reached, else the layers up to the one holding Sink.
Layers(r, N, ls) ==
    LET seen == UNION {ls[k] : k \in 1 .. Len(ls)}
        last == ls[Len(ls)]
        next == {v \in N \ seen : \E u \in last : r[<<u, v>>] > 0}
    IN IF next = {} THEN <<>>
       ELSE IF "Sink" \in next THEN Append(ls, next)
       ELSE Layers(r, N, Append(ls, next))

RECURSIVE PathTo(_, _, _, _)
\* a shortest Source -> v path through the layers; v is in layer k.
PathTo(r, ls, k, v) ==
    IF k = 1 THEN <<v>>
    ELSE LET u == CHOOSE x \in ls[k - 1] : r[<<x, v>>] > 0
         IN Append(PathTo(r, ls, k - 1, u), v)

RECURSIVE Bottleneck(_, _, _)
Bottleneck(r, p, k) ==
    IF k = Len(p) - 1 THEN r[<<p[k], p[k + 1]>>]
    ELSE Min(r[<<p[k], p[k + 1]>>], Bottleneck(r, p, k + 1))

Augment(r, p, b) ==
    LET fwd == {<<p[k], p[k + 1]>> : k \in 1 .. Len(p) - 1}
        bwd == {<<p[k + 1], p[k]>> : k \in 1 .. Len(p) - 1}
    IN [e \in DOMAIN r |->
          IF e \in fwd THEN r[e] - b
          ELSE IF e \in bwd THEN r[e] + b ELSE r[e]]

RECURSIVE AugmentAll(_, _, _)
AugmentAll(r, N, value) ==
    LET ls == Layers(r, N, <<{"Source"}>>) IN
    IF ls = <<>> THEN value
    ELSE LET p == PathTo(r, ls, Len(ls), "Sink")
             b == Bottleneck(r, p, 1)
         IN AugmentAll(Augment(r, p, b), N, value + b)

maximum_flow(g) == AugmentAll(Residual(g), g.nodes, 0)

\* lines 137-139: comparing_value, the sum of the saturated_edges values.
ComparingValue(sat) == SumOver(sat, DOMAIN sat)

\* line 140 with >= in place of >.
network_flowsMutant(g, sat) == ComparingValue(sat) >= maximum_flow(g)

\* network_flows(saturated_edges) on self.G = g.
network_flows(g, sat) == ComparingValue(sat) > maximum_flow(g)

\* ------------------------------------------------------ linear_programming
\* The LP of lines 154-192 has one variable f[e] per edge and the total flow
\* F.  Its variables are taken in units of 1/Den: a value u stands for u/Den,
\* a capacity c for the bound Den * c.
Interior(g) == g.nodes \ {"Source", "Sink"}

\* The edges between two nodes other than Source and Sink.
MiddleEdges(g) == {e \in Edges(g) : e[1] \in Interior(g) /\ e[2] \in Interior(g)}

RECURSIVE Boxes(_, _)
\* every x with 0 <= x[e] <= Den * cap[e] on the edges E (lines 170, 189).
Boxes(g, E) ==
    IF E = {} THEN {<<>>}
    ELSE LET e == CHOOSE y \in E : TRUE
         IN {(e :> u) @@ x : u \in 0 .. Den * g.cap[e], x \in Boxes(g, E \ {e})}

RECURSIVE SourceSide(_, _)
\* the flows on the edges leaving the nodes M, each a successor of Source:
\* the edge Source -> m is the only one into m, so conservation at m makes
\* f[Source, m] the outflow of m and line 170 bounds that by Den * cap.
SourceSide(g, M) ==
    IF M = {} THEN {<<>>}
    ELSE LET m == CHOOSE y \in M : TRUE
             out == {e \in MiddleEdges(g) : e[1] = m}
             here == {x \in Boxes(g, out) :
                         SumOver(x, out) <= Den * g.cap[<<"Source", m>>]}
         IN {x @@ y : x \in here, y \in SourceSide(g, M \ {m})}

\* The flows on the middle edges that a feasible point can have.
MiddleFlows(g) ==
    LET M == successors(g, "Source")
        rest == {e \in MiddleEdges(g) : e[1] \notin M}
    IN {x @@ y : x \in SourceSide(g, M), y \in Boxes(g, rest)}

\* The flow on all edges that conservation (lines 173-176) forces from the
\* flow x on the middle edges: in a network of create_network a node entered
\* from Source has no other predecessor and a node leaving to Sink has no
\* other successor, so f[Source, m] is the outflow of m and f[t, Sink] the
\* inflow of t.
Extend(g, x) ==
    [e \in Edges(g) |->
        IF e \in DOMAIN x THEN x[e]
        ELSE IF e[1] = "Source"
             THEN SumOver(x, {d \in DOMAIN x : d[1] = e[2]})
             ELSE SumOver(x, {d \in DOMAIN x : d[2] = e[1]})]

\* lines 170-189: the constraints of the LP on the flow f and the total F.
LPFeasible(g, f, F) ==
    /\ \A e \in Edges(g) : f[e] <= Den * g.cap[e]
    /\ \A i \in Interior(g) :
          SumOver(f, {<<p, i>> : p \in predecessors(g, i)})
              = SumOver(f, {<<i, j>> : j \in successors(g, i)})
    /\ F = SumOver(f, {<<"Source", j>> : j \in successors(g, "Source")})
    /\ SumOver(f, {<<p, "Sink">> : p \in predecessors(g, "Sink")}) = F
    /\ \A e \in Edges(g) : f[e] >= 0

SourceOut(g, f) == SumOver(f, {<<"Source", j>> : j \in successors(g, "Source")})

\* The values of F, in units of 1/Den, at the feasible points of the LP.
LPValues(g) ==
    {SourceOut(g, f) :
        f \in {h \in {Extend(g, x) : x \in MiddleFlows(g)} :
                  LPFeasible(g, h, SourceOut(g, h))}}

\* lines 192-195: maximize F; -1 when the LP has no feasible point.
LPOptimum(g) ==
    LET vals == LPValues(g) IN
    IF vals = {} THEN -1
    ELSE CHOOSE v \in vals : \A w \in vals : w <= v

\* Python's round() of u/Den: to the nearest integer, a tie to the even one.
Round(u) ==
    LET q == u \div Den
        r == u % Den
    IN IF 2 * r < Den THEN q
       ELSE IF 2 * r > Den THEN q + 1
       ELSE IF q % 2 = 0 THEN q ELSE q + 1

\* line 201 with the comparison against the sum of the Source capacities
\* turned into >=.
linear_programmingMutant(g, sat) ==
    LET F == LPOptimum(g) IN
    IF F < 0 THEN [raised |-> TRUE, value |-> FALSE]
    ELSE [raised |-> FALSE, value |-> ComparingValue(sat) >= Round(F)]

\* linear_programming(saturated_edges) on self.G = g: the verdict, or raised
\* when the solver finds no optimum and F has no value to round.
linear_programming(g, sat) ==
    LET F == LPOptimum(g) IN
    IF F < 0 THEN [raised |-> TRUE, value |-> FALSE]
    ELSE [raised |-> FALSE, value |-> ComparingValue(sat) > Round(F)]

\* ----------------------------------------------------------- is_eliminated
Recognised == {"Network Flows", "Linear Programming"}
\* The solver strings a caller passes: the two recognised and one other.
Solvers == Recognised \cup {"Simplex"}
\* The ids a caller passes: those of the roster and one that is absent.
TeamArgs(T) == 0 .. Cardinality(DOMAIN T)

\* lines 66-74: flag1 after the loop over the other teams.
PreCheck(T, q) ==
    \E o \in DOMAIN T \ {q} : T[q].wins + T[q].remaining < T[o].wins

\* line 67 placed after line 76: the network is rebuilt before the lookup
\* raises.
MissingTeamMutant(old, oldsat) ==
    [outcome |-> "raised", ret |-> FALSE,
     G |-> add_node(add_node(EmptyGraph, "Source"), "Sink"),
     saturated_edges |-> <<>>, called |-> {"create_network"}]

\* line 67: self.teams[teamID] raises KeyError for an absent id; nothing
\* after it runs.
MissingTeam(old, oldsat) ==
    [outcome |-> "raised", ret |-> FALSE, G |-> old,
     saturated_edges |-> oldsat, called |-> {}]

\* lines 77-81 without the test of flag1: the solver always runs.
SolveMutant(flag1, g, sat, s) ==
    IF s = "Network Flows"
    THEN [outcome |-> "returned", ret |-> network_flows(g, sat),
          called |-> {"network_flows"}]
    ELSE IF s = "Linear Programming"
    THEN LET r == linear_programming(g, sat)
         IN [outcome |-> IF r.raised THEN "raised" ELSE "returned",
             ret |-> r.value, called |-> {"linear_programming"}]
    ELSE [outcome |-> "returned", ret |-> flag1, called |-> {}]

\* lines 77-83: the solver named by s runs when flag1 is not set; any other
\* string leaves flag1 as it is; flag1 is returned.
Solve(flag1, g, sat, s) ==
    IF flag1 THEN [outcome |-> "returned", ret |-> TRUE, called |-> {}]
    ELSE IF s = "Network Flows"
    THEN [outcome |-> "returned", ret |-> network_flows(g, sat),
          called |-> {"network_flows"}]
    ELSE IF s = "Linear Programming"
    THEN LET r == linear_programming(g, sat)
         IN [outcome |-> IF r.raised THEN "raised" ELSE "returned",
             ret |-> r.value, called |-> {"linear_programming"}]
    ELSE [outcome |-> "returned", ret |-> flag1, called |-> {}]

\* is_eliminated(q, s) on a Division with the roster T whose self.G is old
\* (oldsat: the saturated_edges create_network returned last): how the call
\* ends, what it returns, the self.G it leaves and the methods it called.
is_eliminated(old, oldsat, T, q, s) ==
    IF q \notin DOMAIN T THEN MissingTeam(old, oldsat)
    ELSE LET flag1 == PreCheck(T, q)
             net == create_network(old, T, q)
             r == Solve(flag1, net.G, net.saturated_edges, s)
         IN [outcome |-> r.outcome, ret |-> r.ret, G |-> net.G,
             saturated_edges |-> net.saturated_edges,
             called |-> {"create_network"} \cup r.called]

\* ----------------------------------------------- one query after another
Threads == {1, 2}

IdleThread ==
    [pc |-> "idle", teamID |-> 0, solver |-> "", flag1 |-> FALSE,
     saturated_edges |-> <<>>, ret |-> FALSE]

\* Division(filename): the roster is read, self.G is an empty DiGraph.
Init ==
    /\ teams \in Rosters
    /\ G = EmptyGraph
    /\ saturated_edges = <<>>
    /\ teamID = 0
    /\ solver = ""
    /\ outcome = "none"
    /\ ret = FALSE
    /\ called = {}
    /\ nqueries = 0
    /\ threads = [th \in Threads |-> IdleThread]

\* One whole call is_eliminated(q, s).
IsEliminated(q, s) ==
    \E r \in {is_eliminated(G, saturated_edges, teams, q, s)} :
    /\ teamID' = q
    /\ solver' = s
    /\ outcome' = r.outcome
    /\ ret' = r.ret
    /\ G' = r.G
    /\ saturated_edges' = r.saturated_edges
    /\ called' = r.called
    /\ nqueries' = nqueries + 1
    /\ UNCHANGED <<teams, threads>>

\* Any sequence of calls on one Division.
Next ==
    \E q \in TeamArgs(teams), s \in Solvers :
        nqueries < MaxQueries /\ IsEliminated(q, s)

Spec == Init /\ [][Next]_vars

\* One call on a freshly loaded Division: is_eliminated as a function of the
\* roster and its arguments (a call reads nothing that an earlier call left:
\* lines 96-97, C9).
NextQuery ==
    \E q \in TeamArgs(teams), s \in Solvers :
        nqueries = 0 /\ IsEliminated(q, s)

SpecQuery == Init /\ [][NextQuery]_vars

\* ------------------------------------------- two queries, step by step
\* Two callers query different teams of one Division; each call is the
\* steps pre-check (lines 66-74), create_network (line 76) and solver
\* (lines 77-83).  self.G is the Division's; flag1 and saturated_edges are
\* locals of the call.
seqvars == <<saturated_edges, teamID, solver, outcome, ret, called, nqueries>>

InitConc ==
    /\ Init
    /\ Cardinality(DOMAIN teams) >= 2

Call(th, q, s) ==
    /\ threads[th].pc = "idle"
    /\ \A o \in Threads \ {th} : threads[o].pc = "idle" \/ threads[o].teamID # q
    /\ threads' = [threads EXCEPT ![th] = [@ EXCEPT !.pc = "precheck",
                                                     !.teamID = q,
                                                     !.solver = s]]
    /\ UNCHANGED <<teams, G, seqvars>>

ThPreCheck(th) ==
    /\ threads[th].pc = "precheck"
    /\ threads' = [threads EXCEPT ![th] =
                      [@ EXCEPT !.pc = "create",
                                !.flag1 = PreCheck(teams, threads[th].teamID)]]
    /\ UNCHANGED <<teams, G, seqvars>>

ThCreate(th) ==
    /\ threads[th].pc = "create"
    /\ \E net \in {create_network(G, teams, threads[th].teamID)} :
       /\ G' = net.G
       /\ threads' = [threads EXCEPT ![th] =
                         [@ EXCEPT !.pc = "solve",
                                   !.saturated_edges = net.saturated_edges]]
    /\ UNCHANGED <<teams, seqvars>>

ThSolve(th) ==
    /\ threads[th].pc = "solve"
    /\ \E r \in {Solve(threads[th].flag1, G, threads[th].saturated_edges,
                         threads[th].solver)} :
       threads' = [threads EXCEPT ![th] = [@ EXCEPT !.pc = r.outcome,
                                                        !.ret = r.ret]]
    /\ UNCHANGED <<teams, G, seqvars>>

NextConc ==
    \/ \E th \in Threads, q \in DOMAIN teams, s \in Recognised : Call(th, q, s)
    \/ \E th \in Threads : ThPreCheck(th)
    \/ \E th \in Threads : ThCreate(th)
    \/ \E th \in Threads : ThSolve(th)

SpecConc == InitConc /\ [][NextConc]_vars

\* ================================================================== claims
\* The ids of the teams other than q, and their pairs i < j.
Others(T, q) == DOMAIN T \ {q}
OtherPairs(T, q) == {p \in Others(T, q) \X Others(T, q) : p[1] < p[2]}

\* Some way of giving every remaining game between the teams other than q a
\* winner (w[p] of the games of the pair p to its first team, the rest to
\* its second) leaves no other team with more than wins(q) + remaining(q)
\* wins.
ExistsAssignment(T, q) ==
    \E w \in [OtherPairs(T, q) -> 0 .. MaxTotalGames] :
        /\ \A p \in OtherPairs(T, q) : w[p] <= T[p[1]].against[p[2]]
        /\ \A t \in Others(T, q) :
              T[t].wins
                + SumOver(w, {p \in OtherPairs(T, q) : p[1] = t})
                + SumOver([p \in OtherPairs(T, q) |->
                              T[p[1]].against[p[2]] - w[p]],
                          {p \in OtherPairs(T, q) : p[2] = t})
                <= T[q].wins + T[q].remaining

\* Some other team has already won more than q can still reach.
Surpassed(T, q) ==
    \E o \in Others(T, q) : T[o].wins > T[q].wins + T[q].remaining

\* A call for a team of the roster has returned.
Returned == outcome = "returned" /\ teamID \in DOMAIN teams

\* C1: for every valid roster and team of it, is_eliminated with
\* "Network Flows" and with "Linear Programming" return the same boolean.
C1_CrossSolverAgreement ==
    (Returned /\ solver \in Recognised) =>
        LET other == CHOOSE s \in Recognised : s # solver
            r == is_eliminated(EmptyGraph, <<>>, teams, teamID, other)
        IN r.outcome = "returned" /\ r.ret = ret

\* C1 witness: the LP solver ran and found an elimination that the pre-check
\* does not see.
C1_Witness ==
    /\ Returned /\ solver = "Linear Programming" /\ ret
    /\ "linear_programming" \in called
    /\ ~Surpassed(teams, teamID)

\* C2 as stated: with "Network Flows" the verdict is true exactly when the
\* maximum flow of the network built for q is below the total remaining-game
\* capacity, which is exactly when no assignment of winners keeps every
\* other team at or below wins(q) + remaining(q).
C2_FlowVerdictIsDeficit ==
    (Returned /\ solver = "Network Flows") =>
        LET deficit == maximum_flow(G) < ComparingValue(saturated_edges)
        IN /\ ret <=> deficit
           /\ deficit <=> ~ExistsAssignment(teams, teamID)

\* C2 amended: with "Network Flows" the verdict is true exactly when the
\* pre-check fires (another team's wins exceed wins(q) + remaining(q)) or
\* the maximum flow of the network built for q is below the total
\* remaining-game capacity, which is exactly when no assignment of winners
\* keeps every other team at or below wins(q) + remaining(q).
C2_FlowVerdictCharacterised ==
    (Returned /\ solver = "Network Flows") =>
        LET deficit == maximum_flow(G) < ComparingValue(saturated_edges)
        IN /\ ret <=> (Surpassed(teams, teamID) \/ deficit)
           /\ (Surpassed(teams, teamID) \/ deficit)
                 <=> ~ExistsAssignment(teams, teamID)

\* C2 witness: the flow solver ran and reported a deficit.
C2_Witness ==
    /\ Returned /\ solver = "Network Flows" /\ ret
    /\ "network_flows" \in called
    /\ maximum_flow(G) < ComparingValue(saturated_edges)

\* C3: if wins(q) + remaining(q) is below another team's wins, is_eliminated
\* returns true and calls neither network_flows nor linear_programming.
C3_PreCheckShortCircuits ==
    (outcome # "none" /\ teamID \in DOMAIN teams /\ Surpassed(teams, teamID)) =>
        /\ outcome = "returned"
        /\ ret
        /\ "network_flows" \notin called
        /\ "linear_programming" \notin called

\* C3 witness: a call with a recognised solver for a surpassed team.
C3_Witness ==
    /\ Returned /\ Surpassed(teams, teamID)
    /\ solver = "Network Flows"

\* C4: in every state reached by a sequence of queries no team -> Sink edge
\* of the stored network has a negative capacity.
C4_NoNegativeSinkCapacity ==
    \A e \in Edges(G) : e[2] = "Sink" => G.cap[e] >= 0

\* C5: a call with a solver string that is not recognised fails; it never
\* returns a boolean.
C5_UnsupportedSolverFails ==
    (outcome # "none" /\ solver \notin Recognised) => outcome = "raised"

\* C6: a call with an id that is not in the roster fails before any network
\* construction: create_network is not entered and self.G stays as it was.
C6_UnknownTeamFailsEarly ==
    [][teamID' \notin DOMAIN teams =>
          /\ outcome' = "raised"
          /\ "create_network" \notin called'
          /\ G' = G]_vars

\* C6 witness: a call for an absent id has failed on a Division that holds
\* the network of an earlier query.
C6_Witness ==
    /\ outcome = "raised" /\ teamID \notin DOMAIN teams
    /\ "Source" \in G.nodes

\* C7: a team with remaining = 0 and more wins than any other team's
\* wins + remaining is reported not eliminated by either solver.
C7_ClearLeaderNotEliminated ==
    (/\ Returned /\ solver \in Recognised
     /\ teams[teamID].remaining = 0
     /\ \A o \in Others(teams, teamID) :
           teams[teamID].wins > teams[o].wins + teams[o].remaining)
        => ~ret

\* C7 witness: such a leader, queried while two other teams still play.
C7_Witness ==
    /\ Returned /\ solver \in Recognised
    /\ teams[teamID].remaining = 0
    /\ \A o \in Others(teams, teamID) :
          teams[teamID].wins > teams[o].wins + teams[o].remaining
    /\ ComparingValue(saturated_edges) > 0
    /\ called # {"create_network"}

\* C8: when two queries for different teams are interleaved, each query
\* that returns returns the verdict it returns when run alone.
C8_InterleavingKeepsVerdict ==
    \A th \in Threads :
        threads[th].pc = "returned" =>
            LET r == is_eliminated(EmptyGraph, <<>>, teams,
                                   threads[th].teamID, threads[th].solver)
            IN r.outcome = "returned" /\ r.ret = threads[th].ret

\* C9: after any earlier queries, create_network(t) leaves the node set, the
\* edges with their capacities and the saturated_edges that it gives on a
\* freshly loaded Division, and the query leaves the roster unchanged.
C9_HistoryIndependent ==
    [][/\ teamID' \in DOMAIN teams =>
             LET fresh == create_network(EmptyGraph, teams, teamID')
             IN /\ G' = fresh.G
                /\ saturated_edges' = fresh.saturated_edges
       /\ teams' = teams]_vars

\* C9 witness: a network built by a third query, for a Division with games
\* left between the other teams.
C9_Witness ==
    /\ Returned /\ nqueries >= 3
    /\ ComparingValue(saturated_edges) > 0

\* C10: create_network(q) makes exactly one matchup node per pair {i, j} of
\* distinct teams other than q, with the edges Source -> matchup,
\* matchup -> i and matchup -> j all of capacity against[i][j], and the sum
\* of saturated_edges is the sum of the capacities leaving Source.
C10_MatchupStructure ==
    Returned =>
        LET q == teamID
            P == OtherPairs(teams, q)
            names == {NodeName(p[1], p[2]) : p \in P}
            teamNodes == {TeamNode(t) : t \in Others(teams, q)}
        IN /\ G.nodes \ ({"Source", "Sink"} \cup teamNodes) = names
           /\ TeamNode(q) \notin G.nodes
           /\ Cardinality(names) = Cardinality(P)
           /\ successors(G, "Source") = names
           /\ DOMAIN saturated_edges = names
           /\ \A p \in P :
                 LET m == NodeName(p[1], p[2])
                     c == teams[p[1]].against[p[2]]
                 IN /\ predecessors(G, m) = {"Source"}
                    /\ successors(G, m) = {TeamNode(p[1]), TeamNode(p[2])}
                    /\ G.cap[<<"Source", m>>] = c
                    /\ G.cap[<<m, TeamNode(p[1])>>] = c
                    /\ G.cap[<<m, TeamNode(p[2])>>] = c
                    /\ saturated_edges[m] = c
           /\ ComparingValue(saturated_edges)
                 = SumOver(G.cap, {<<"Source", m>> : m \in names})

\* C10 witness: a network for a team that is neither the first nor the last
\* of three, whose two other teams still play each other.
C10_Witness ==
    /\ Returned /\ Cardinality(DOMAIN teams) = 3 /\ teamID = 1
    /\ "0_2" \in G.nodes
    /\ G.cap[<<"Source", "0_2">>] > 0

====
